---------------------------- MODULE Spec2Model ----------------------------
(***************************************************************************)
(* Model of r2/lib/inventory.py: advertising inventory estimates.          *)
(*                                                                         *)
(* Strings are sequences of one-character strings, so that the regular     *)
(* expression, the SQL LIKE filter and strftime are computed rather than   *)
(* assumed.  Dates are day numbers counted from Epoch; a datetime is a     *)
(* record [day, hour].  Python dicts are functions with a finite domain.   *)
(***************************************************************************)
EXTENDS Integers, Sequences, FiniteSets, TLC

VARIABLES
    traffic,        \* rows of traffic.PageviewsBySubredditAndPath
    last_modified,  \* traffic.get_traffic_last_modified(), a datetime
    promo_metrics,  \* PromoMetrics row MIN_DAILY_CASS_KEY: sr name -> pageviews
    campaigns,      \* PromoCampaign things by _id
    weights,        \* PromotionWeights rows
    bids,           \* Bid rows by transaction id
    call,           \* the read call in progress and its arguments
    frame,          \* that call's position and what its store round trips read
    ret,            \* what that call returns (or the exception it raises)
    run,            \* update_prediction_data in progress: its position and locals
    seen,           \* history: the traffic rows as the query of the run found them
    evicted         \* history: the sr names the latest finished run dropped

vars == <<traffic, last_modified, promo_metrics, campaigns, weights, bids,
          call, frame, ret, run, seen, evicted>>

-----------------------------------------------------------------------------
(* Bounds of the model *)

MaxRows == 2          \* traffic rows in the traffic store
MaxDay == 3           \* query and campaign dates are days 0..MaxDay
MaxImpressions == 7   \* the impressions a campaign buys
MaxRequest == 3       \* the daily_request asked of get_oversold

-----------------------------------------------------------------------------
(* Program constants *)

NDAYS_TO_QUERY == 14
NO_TRANSACTION == 0
\* INVENTORY_FACTOR = 1.00, kept as the ratio of two integers
INVENTORY_FACTOR_NUM == 100
INVENTORY_FACTOR_DEN == 100

\* '-GET_listing', the literal part of PAGEVIEWS_REGEXP
GET_LISTING == <<"-","G","E","T","_","l","i","s","t","i","n","g">>
\* '%-GET_listing', the pattern given to srpath.like()
LIKE_PATTERN == <<"%">> \o GET_LISTING

\* DefaultSR.name (note the leading space) and the names of two subreddits
DefaultSRName == <<" ","r","e","d","d","i","t",".","c","o","m">>
FooName == <<"f","o","o">>
BarName == <<"b","a","r">>
EmptyName == <<>>

\* Site objects: sr.name and isinstance(sr, DefaultSR)
DefaultSR == [name |-> DefaultSRName, is_default |-> TRUE]
FooSR == [name |-> FooName, is_default |-> FALSE]
BarSR == [name |-> BarName, is_default |-> FALSE]

EmptyDict == [x \in {} |-> 0]

Max(a, b) == IF a >= b THEN a ELSE b
MinOf(S) == CHOOSE m \in S : \A x \in S : m <= x
MaxOf(S) == CHOOSE m \in S : \A x \in S : m >= x
Range(s) == {s[i] : i \in DOMAIN s}

-----------------------------------------------------------------------------
(* Dates *)

\* to_date: a datetime loses its time of day, a date is returned unchanged
Date(d) == [is_datetime |-> FALSE, day |-> d, hour |-> 0]
DateTime(d, h) == [is_datetime |-> TRUE, day |-> d, hour |-> h]
to_date(d) == IF d.is_datetime THEN Date(d.day) ELSE d

\* (end - start).days for two dates or two datetimes: whole days, floored
DaysBetween(start, end) ==
    ((end.day * 24 + end.hour) - (start.day * 24 + start.hour)) \div 24

\* Variant: the range includes end
Mutant_get_date_range_inclusive(start, end) ==
    LET s == to_date(start)
        e == to_date(end)
    IN [i \in 1..(DaysBetween(s, e) + 1) |-> Date(s.day + (i - 1))]

\* get_date_range: the dates start, start+1, ... up to and excluding end
get_date_range(start, end) ==
    LET s == to_date(start)
        e == to_date(end)
    IN [i \in 1..DaysBetween(s, e) |-> Date(s.day + (i - 1))]

\* The calendar: day 0 is 30 December 2013
IsLeap(y) == (y % 4 = 0 /\ y % 100 # 0) \/ y % 400 = 0
DaysInMonth(y, m) ==
    IF m = 2 THEN (IF IsLeap(y) THEN 29 ELSE 28)
    ELSE IF m \in {4, 6, 9, 11} THEN 30 ELSE 31

NextDay(c) ==
    IF c.d < DaysInMonth(c.y, c.m) THEN [c EXCEPT !.d = c.d + 1]
    ELSE IF c.m < 12 THEN [y |-> c.y, m |-> c.m + 1, d |-> 1]
    ELSE [y |-> c.y + 1, m |-> 1, d |-> 1]

RECURSIVE Calendar(_)
Calendar(n) ==
    IF n = 0 THEN [y |-> 2013, m |-> 12, d |-> 30]
    ELSE NextDay(Calendar(n - 1))

Digit(n) == <<"0","1","2","3","4","5","6","7","8","9">>[n + 1]
Pad2(n) == <<Digit((n \div 10) % 10), Digit(n % 10)>>
Pad4(n) == <<Digit((n \div 1000) % 10), Digit((n \div 100) % 10)>> \o Pad2(n % 100)

\* dt.strftime('%m/%d/%Y')
strftime(dt) ==
    LET c == Calendar(dt.day)
    IN Pad2(c.m) \o <<"/">> \o Pad2(c.d) \o <<"/">> \o Pad4(c.y)

-----------------------------------------------------------------------------
(* Historical minimum aggregator *)

\* SQL LIKE: % matches any run of characters, _ any one character
RECURSIVE Like(_, _)
Like(s, p) ==
    IF p = <<>> THEN s = <<>>
    ELSE IF Head(p) = "%"
         THEN \E k \in 0..Len(s) : Like(SubSeq(s, k + 1, Len(s)), Tail(p))
         ELSE /\ s # <<>>
              /\ (Head(p) = "_" \/ Head(p) = Head(s))
              /\ Like(Tail(s), Tail(p))

\* PAGEVIEWS_REGEXP.match(s): the positions where '-GET_listing' can follow a
\* greedy '(.*)' anchored at the start ('.' matches no newline)
RegexpStops(s) ==
    {i \in 1..(Len(s) - Len(GET_LISTING) + 1) :
        /\ SubSeq(s, i, i + Len(GET_LISTING) - 1) = GET_LISTING
        /\ \A j \in 1..(i - 1) : s[j] # "\n"}
PAGEVIEWS_REGEXP_matches(s) == RegexpStops(s) # {}
\* m.group(1)
PAGEVIEWS_REGEXP_group1(s) == SubSeq(s, 1, MaxOf(RegexpStops(s)) - 1)

\* traffic.get_time_points('day', start, stop): every day from start to stop
get_time_points(start, stop) == start..stop

\* Variant: rows of every interval are queried
Mutant_QueryRows_any_interval(time_points) ==
    {r \in traffic : /\ r.date \in time_points
                     /\ Like(r.srpath, LIKE_PATTERN)}

\* The rows of the query of _min_daily_pageviews_by_sr before grouping
QueryRows(time_points) ==
    {r \in traffic : /\ r.interval = "day"
                     /\ r.date \in time_points
                     /\ Like(r.srpath, LIKE_PATTERN)}

\* ... GROUP BY srpath with func.min(pageview_count): (srpath, min) rows
GroupedRows(time_points) ==
    LET rows == QueryRows(time_points)
    IN {<<p, MinOf({r.pageview_count : r \in {x \in rows : x.srpath = p}})>> :
            p \in {r.srpath : r \in rows}}

\* _min_daily_pageviews_by_sr(ndays) with end_date omitted, from the query on:
\* lm is the last_modified read before.  The query has no ORDER BY and
\* retval[m.group(1)] = row[1] keeps the row that comes last, so when two
\* srpaths give the same group(1) either row's minimum can be the one left:
\* the set of the mappings the loop can return
min_daily_pageviews_by_sr(ndays, lm) ==
    LET end_day == lm.day - 1
        stop == end_day
        start == stop - ndays
        q == GroupedRows(get_time_points(start, stop))
        matched == {row \in q : PAGEVIEWS_REGEXP_matches(row[1])}
        names == {PAGEVIEWS_REGEXP_group1(row[1]) : row \in matched}
    IN {retval \in [names -> {row[2] : row \in matched}] :
          \A n \in names :
             \E row \in matched : /\ PAGEVIEWS_REGEXP_group1(row[1]) = n
                                  /\ retval[n] = row[2]}

-----------------------------------------------------------------------------
(* Arguments and results *)

\* The srs argument: one site object, or a sequence of them
One(sr) == [is_iter |-> FALSE, items |-> <<sr>>]
Many(srs) == [is_iter |-> TRUE, items |-> srs]

\* tup(srs, ret_is_single=True)
tup(arg) == [srs |-> arg.items, is_single |-> ~arg.is_iter]

\* The ignore argument: None, or a campaign
None == [is_none |-> TRUE, _id |-> 0]
Camp(i) == [is_none |-> FALSE, _id |-> i]

\* A call raises (KeyError, NotFound), or returns a mapping keyed by date (by_sr FALSE) or a
\* mapping keyed by sr name whose entries are keyed by date (by_sr TRUE)
ByDate(v) == [raised |-> FALSE, by_sr |-> FALSE, value |-> v]
BySr(v) == [raised |-> FALSE, by_sr |-> TRUE, value |-> v]
Raise(e) == [raised |-> TRUE, by_sr |-> FALSE, value |-> e]

\* Variant: the result stays keyed by sr name for a single site
Mutant_Shape_always_nested(t, nested) == BySr(nested)

\* The tail of every bulk function: ret[srs[0].name] if is_single else ret
Shape(t, nested) ==
    IF t.is_single THEN ByDate(nested[t.srs[1].name]) ELSE BySr(nested)

RECURSIVE Sum(_, _)
\* sum of f[x] over the finite set S
Sum(S, f) ==
    IF S = {} THEN 0
    ELSE LET x == CHOOSE y \in S : TRUE IN f[x] + Sum(S \ {x}, f)

-----------------------------------------------------------------------------
(* Campaign / sales aggregator *)

\* PromoCampaign.ndays
ndays(camp) == DaysBetween(camp.start_date, camp.end_date)

\* Bid.is_auth() or Bid.is_charged()
is_auth(bid) == bid = "AUTH"
is_charged(bid) == bid = "CHARGE"

\* sr_names = ['' if isinstance(sr, DefaultSR) else sr.name for sr in srs]
sr_names_of(srs) ==
    {IF sr.is_default THEN EmptyName ELSE sr.name : sr \in Range(srs)}

\* Variant: the query does not filter the ignored campaign out
Mutant_campaign_ids_of_no_ignore(sr_names, dates, ignore) ==
    {pw.promo_idx : pw \in
        {w \in weights : /\ w.sr_name \in sr_names
                         /\ w.date \in dates}}

\* The first store round trip of get_campaigns_by_date, the PromotionWeights
\* query: the promo_idx of its rows
campaign_ids_of(sr_names, dates, ignore) ==
    {pw.promo_idx : pw \in
        {w \in weights : /\ w.sr_name \in sr_names
                         /\ w.date \in dates
                         /\ (ignore.is_none \/ w.promo_idx # ignore._id)}}

\* The second round trip, PromoCampaign._byID(campaign_ids, data=True,
\* return_dict=False): the campaigns as the store holds them now.  _byID
\* raises NotFound when it does not find every id
PromoCampaign_byID_finds(campaign_ids) == campaign_ids \subseteq DOMAIN campaigns
PromoCampaign_byID(campaign_ids) ==
    [i \in campaign_ids \cap DOMAIN campaigns |-> campaigns[i]]

\* transaction_ids = {camp.trans_id for camp in campaigns
\*                                  if camp.trans_id != NO_TRANSACTION}
transaction_ids_of(camps) ==
    {camps[i].trans_id : i \in DOMAIN camps} \ {NO_TRANSACTION}

\* The third round trip, made when transaction_ids is not empty: the Bid
\* query, as transaction_by_id
Bid_query(transaction_ids) ==
    [tid \in transaction_ids \cap DOMAIN bids |-> bids[tid]]

\* Variant: campaigns without impressions are not skipped
Mutant_Billable_no_impressions_check(camps) ==
    {i \in DOMAIN camps : camps[i].trans_id # NO_TRANSACTION}

\* The campaigns that pass the sentinel and the impressions checks
Billable(camps) ==
    {i \in DOMAIN camps : /\ camps[i].trans_id # NO_TRANSACTION
                          /\ camps[i].impressions > 0}

\* Variant: the status of the transaction is not looked at
Mutant_Eligible_any_status(camps, transaction_by_id) == Billable(camps)

\* ... and whose transaction is authorized or charged
Eligible(camps, transaction_by_id) ==
    {i \in Billable(camps) :
        LET transaction == transaction_by_id[camps[i].trans_id]
        IN is_auth(transaction) \/ is_charged(transaction)}

\* Variant: a campaign is placed on every date of the query
Mutant_camp_dates_in_whole_query(camp, dates) == dates

\* camp_dates.intersection(dates)
camp_dates_in(camp, dates) ==
    Range(get_date_range(camp.start_date, camp.end_date)) \cap dates

\* get_campaigns_by_date after its store round trips: camps are the campaigns
\* _byID loaded and transaction_by_id the bids the Bid query found.  Both
\* transaction_by_id[camp.trans_id] and ret[sr_name] raise KeyError
get_campaigns_by_date(srs_arg, start, end, camps, transaction_by_id) ==
    LET t == tup(srs_arg)
        srs == Range(t.srs)
        dates == Range(get_date_range(start, end))
        keys == {sr.name : sr \in srs}
        sr_name_of(i) == IF camps[i].sr_name = EmptyName
                         THEN DefaultSRName ELSE camps[i].sr_name
    IN IF \E i \in Billable(camps) :
             camps[i].trans_id \notin DOMAIN transaction_by_id
       THEN Raise("KeyError")
       ELSE LET eligible == Eligible(camps, transaction_by_id)
                placed == {p \in eligible \X dates :
                              p[2] \in camp_dates_in(camps[p[1]], dates)}
            IN IF \E p \in placed : sr_name_of(p[1]) \notin keys
               THEN Raise("KeyError")
               ELSE Shape(t,
                      [n \in keys |->
                         LET mine == {p \in placed : sr_name_of(p[1]) = n}
                         IN [d \in {p[2] : p \in mine} |->
                               {p[1] : p \in {q \in mine : q[2] = d}}]])

\* Variant: every day is attributed the whole purchase
Mutant_daily_impressions_whole(camp) == camp.impressions

\* camp.impressions / camp.ndays on Python 2 integers
daily_impressions(camp) == camp.impressions \div ndays(camp)

get_sold_pageviews(srs_arg, start, end, camps, transaction_by_id) ==
    LET t == tup(srs_arg)
        r == get_campaigns_by_date(Many(t.srs), start, end, camps, transaction_by_id)
    IN IF r.raised THEN r
       ELSE LET campaigns_by_sr_by_date == r.value
                di == [i \in DOMAIN camps |-> daily_impressions(camps[i])]
            IN Shape(t,
                 [n \in DOMAIN campaigns_by_sr_by_date |->
                    [d \in DOMAIN campaigns_by_sr_by_date[n] |->
                       Sum(campaigns_by_sr_by_date[n][d], di)]])

-----------------------------------------------------------------------------
(* Prediction reader *)

\* int(x * INVENTORY_FACTOR): the product truncated towards zero
Scaled(x) ==
    LET p == x * INVENTORY_FACTOR_NUM
    IN IF p >= 0 THEN p \div INVENTORY_FACTOR_DEN
       ELSE -((-p) \div INVENTORY_FACTOR_DEN)

\* The store round trip of get_predicted_pageviews:
\* PromoMetrics.get(MIN_DAILY_CASS_KEY, sr_names=sr_names)
PromoMetrics_get(sr_names) ==
    [n \in sr_names \cap DOMAIN promo_metrics |-> promo_metrics[n]]

\* sr_names = [sr.name for sr in srs]
cache_names_of(srs) == {sr.name : sr \in Range(srs)}

\* daily_inventory.get(sr.name, 0)
sr_daily_inventory(daily_inventory, name) ==
    Scaled(IF name \in DOMAIN daily_inventory THEN daily_inventory[name] ELSE 0)

\* get_predicted_pageviews after its round trip: daily_inventory is what
\* PromoMetrics.get returned
get_predicted_pageviews(srs_arg, start, end, daily_inventory) ==
    LET t == tup(srs_arg)
        dates == Range(get_date_range(start, end))
    IN Shape(t,
         [n \in cache_names_of(t.srs) |->
            [d \in dates |-> sr_daily_inventory(daily_inventory, n)]])

-----------------------------------------------------------------------------
(* Availability calculator *)

\* datekey = lambda dt: dt.strftime('%m/%d/%Y') if datestr else dt
datekey(dt, datestr) == IF datestr THEN strftime(dt) ELSE dt

\* Variant: the difference is not clamped at 0
Mutant_available_unclamped(pageviews, sold) == pageviews - sold

\* max(0, pageviews - sold)
available(pageviews, sold) == Max(0, pageviews - sold)

\* get_available_pageviews after the round trips of the two functions it calls
get_available_pageviews(srs_arg, start, end, datestr, daily_inventory, camps, transaction_by_id) ==
    LET t == tup(srs_arg)
        pageviews_by_sr_by_date ==
            get_predicted_pageviews(Many(t.srs), start, end, daily_inventory).value
        s == get_sold_pageviews(Many(t.srs), start, end, camps, transaction_by_id)
    IN IF s.raised THEN s
       ELSE LET sold_by_sr_by_date == s.value
                dates == Range(get_date_range(start, end))
                sold(n, d) == IF d \in DOMAIN sold_by_sr_by_date[n]
                              THEN sold_by_sr_by_date[n][d] ELSE 0
            IN Shape(t,
                 [n \in {sr.name : sr \in Range(t.srs)} |->
                    [k \in {datekey(d, datestr) : d \in dates} |->
                       LET same == {x \in dates : datekey(x, datestr) = k}
                           d == CHOOSE x \in same : \A y \in same : y.day <= x.day
                       IN available(pageviews_by_sr_by_date[n][d], sold(n, d))]])

\* Variant: a day whose availability equals the request is oversold
Mutant_is_oversold_or_equal(avail, daily_request) == avail <= daily_request

\* if available < daily_request
is_oversold(avail, daily_request) == avail < daily_request

get_oversold(sr, start, end, daily_request, daily_inventory, camps, transaction_by_id) ==
    LET a == get_available_pageviews(One(sr), start, end, TRUE,
                                     daily_inventory, camps, transaction_by_id)
    IN IF a.raised THEN a
       ELSE LET available_by_date == a.value
            IN ByDate([k \in {x \in DOMAIN available_by_date :
                                  is_oversold(available_by_date[x], daily_request)}
                         |-> available_by_date[k]])

\* PromoMetrics.set(MIN_DAILY_CASS_KEY, values): the row becomes values
PromoMetrics_set(values) == values

\* Variant: the new values are merged into the row that is there
Mutant_update_prediction_data_merge(min_daily_by_sr) ==
    [n \in DOMAIN min_daily_by_sr \cup DOMAIN promo_metrics |->
        IF n \in DOMAIN min_daily_by_sr THEN min_daily_by_sr[n] ELSE promo_metrics[n]]

\* The last line of update_prediction_data(): the row it leaves under
\* MIN_DAILY_CASS_KEY
update_prediction_data_row(min_daily_by_sr) ==
    PromoMetrics_set(min_daily_by_sr)

-----------------------------------------------------------------------------
(* The values the stores and the calls range over *)

Path(name, action) == name \o <<"-">> \o action
ListingAction == <<"G","E","T","_","l","i","s","t","i","n","g">>
CommentsAction == <<"G","E","T","_","c","o","m","m","e","n","t","s">>

Row(srpath, interval, date, count) ==
    [srpath |-> srpath, interval |-> interval, date |-> date, pageview_count |-> count]

\* Malformed paths: one that LIKE lets through by its '_' wildcard and the
\* regular expression does not match, and one that LIKE lets through the same
\* way and the regular expression matches further left
MalformedPaths ==
    {Path(FooName, <<"G","E","T","X","l","i","s","t","i","n","g">>),
     Path(Path(FooName, ListingAction), <<"G","E","T","X","l","i","s","t","i","n","g">>)}

\* Rows the traffic store may receive: daily listing rows of two subreddits
\* inside and at both ends of the window, an hourly listing row, a daily row
\* of another page and daily rows with malformed paths
ListingRows ==
    {Row(Path(FooName, ListingAction), "day", 2, 9),
     Row(Path(FooName, ListingAction), "day", 16, 5),
     Row(Path(FooName, ListingAction), "day", 17, 3),
     Row(Path(BarName, ListingAction), "day", 16, 9)}
TrafficRows ==
    ListingRows
    \cup {Row(Path(FooName, ListingAction), "hour", 16, 1),
          Row(Path(FooName, CommentsAction), "day", 16, 1)}
    \cup {Row(p, "day", 16, 2) : p \in MalformedPaths}

\* The traffic store of the sales side: the front page's only listing row is
\* older than the aggregator's window
SampleTraffic ==
    {Row(Path(FooName, ListingAction), "day", 2, 9),
     Row(Path(FooName, ListingAction), "day", 16, 5),
     Row(Path(DefaultSRName, ListingAction), "day", 1, 20),
     Row(Path(FooName, CommentsAction), "day", 16, 1)}
\* ... and the PromoMetrics row an aggregator run leaves from it
SampleMetrics == FooName :> 5

LastModified == {DateTime(17, 3), DateTime(18, 3)}

CampaignIds == {1, 2}
\* A campaign of one day, given as dates, and one of several days, given as
\* datetimes at midnight
DayRange == <<Date(1), Date(2)>>
LongRange == <<DateTime(0, 0), DateTime(MaxDay - 1, 0)>>
Campaign(n, r, imp, tid) ==
    [sr_name |-> n, start_date |-> r[1], end_date |-> r[2],
     impressions |-> imp, trans_id |-> tid]
Campaigns ==
    {Campaign(n, r, imp, tid) :
        n \in {EmptyName, FooName}, r \in {DayRange, LongRange},
        imp \in {0, MaxImpressions}, tid \in {NO_TRANSACTION, 1}}
\* What the ad system makes of campaign 1 (a day, at either site, with or
\* without impressions and transaction) and of campaign 2 (several days at
\* the subreddit, with a transaction)
CampaignsOf(i) ==
    IF i = 1
    THEN {c \in Campaigns : c.start_date = DayRange[1]}
    ELSE {c \in Campaigns : /\ c.start_date = LongRange[1]
                            /\ c.sr_name = FooName
                            /\ c.trans_id # NO_TRANSACTION}
\* Two paid-for campaigns of the subreddit
DayCampaign == Campaign(FooName, DayRange, MaxImpressions, 1)
LongCampaign == Campaign(FooName, LongRange, MaxImpressions, 1)
BidStatus == {"AUTH", "CHARGE", "VOID"}

SrsArgs == {One(FooSR), Many(<<FooSR, DefaultSR>>)}
Windows == {<<DateTime(1, 12), DateTime(MaxDay, 6)>>,
            <<Date(0), Date(MaxDay)>>}
Ignores == {None, Camp(1)}
Requests == {MaxRequest, MaxRequest + 2}

\* No call in progress, and what a call in progress has not returned yet
NoReturn == ByDate(EmptyDict)
NoCall ==
    [op |-> "none", srs |-> Many(<<>>), start |-> Date(0), end |-> Date(0),
     datestr |-> FALSE, ignore |-> None, daily_request |-> 0]
Called(op, srs, start, end, datestr, ignore, daily_request) ==
    [op |-> op, srs |-> srs, start |-> start, end |-> end,
     datestr |-> datestr, ignore |-> ignore, daily_request |-> daily_request]

\* The position and the locals of a read call: pc is the store round trip
\* that comes next
NoFrame ==
    [pc |-> "none", daily_inventory |-> EmptyDict, campaign_ids |-> {},
     campaigns |-> EmptyDict, transaction_by_id |-> EmptyDict]

\* The position and the locals of update_prediction_data: pc is the store
\* round trip that comes next
NoRun == [pc |-> "none", last_modified |-> Date(0), min_daily_by_sr |-> EmptyDict]

-----------------------------------------------------------------------------
(* The stores change: traffic processing and the ad-management system.  They
   are other processes: nothing in inventory.py takes a lock or opens a
   transaction, so they write at any time, between the store round trips of a
   call as well *)

stores == <<traffic, last_modified, promo_metrics, campaigns, weights, bids>>
reader == <<call, frame, ret>>
aggregator == <<run, seen, evicted>>

AddTrafficRow(r, lm) ==
    /\ Cardinality(traffic) < MaxRows
    /\ \A x \in traffic :
          ~(x.srpath = r.srpath /\ x.interval = r.interval /\ x.date = r.date)
    /\ lm.day >= last_modified.day
    /\ traffic' = traffic \cup {r}
    /\ last_modified' = lm
    /\ UNCHANGED <<reader, aggregator>>
    /\ UNCHANGED <<promo_metrics, campaigns, weights, bids>>

RemoveTrafficRow(r) ==
    /\ r \in traffic
    /\ traffic' = traffic \ {r}
    /\ UNCHANGED <<reader, aggregator>>
    /\ UNCHANGED <<last_modified, promo_metrics, campaigns, weights, bids>>

\* PromotionWeights.add: one row for every date of the campaign
WeightsOf(i, c) ==
    {[promo_idx |-> i, sr_name |-> c.sr_name, date |-> d] :
        d \in Range(get_date_range(c.start_date, c.end_date))}

NewCampaign(i, c) ==
    /\ i \notin DOMAIN campaigns
    /\ ndays(c) > 0
    /\ campaigns' = [j \in DOMAIN campaigns \cup {i} |->
                        IF j = i THEN c ELSE campaigns[j]]
    /\ weights' = weights \cup WeightsOf(i, c)
    /\ UNCHANGED <<reader, aggregator>>
    /\ UNCHANGED <<traffic, last_modified, promo_metrics, bids>>

DeleteCampaign(i) ==
    /\ i \in DOMAIN campaigns
    /\ campaigns' = [j \in DOMAIN campaigns \ {i} |-> campaigns[j]]
    /\ weights' = {w \in weights : w.promo_idx # i}
    /\ UNCHANGED <<reader, aggregator>>
    /\ UNCHANGED <<traffic, last_modified, promo_metrics, bids>>

SetBid(tid, status) ==
    /\ bids' = [t \in DOMAIN bids \cup {tid} |-> IF t = tid THEN status ELSE bids[t]]
    /\ UNCHANGED <<reader, aggregator>>
    /\ UNCHANGED <<traffic, last_modified, promo_metrics, campaigns, weights>>

-----------------------------------------------------------------------------
(* update_prediction_data, one action for each store round trip.  The
   scheduler starts one run at a time *)

\* traffic.get_traffic_last_modified()
UpdateReadLastModified ==
    /\ run.pc = "none"
    /\ run' = [pc |-> "query", last_modified |-> last_modified,
               min_daily_by_sr |-> EmptyDict]
    /\ evicted' = {}
    /\ UNCHANGED <<stores, reader, seen>>

\* The query, and the loop over its rows
UpdateQueryTraffic ==
    /\ run.pc = "query"
    /\ \E retval \in min_daily_pageviews_by_sr(NDAYS_TO_QUERY, run.last_modified) :
          run' = [run EXCEPT !.pc = "set", !.min_daily_by_sr = retval]
    /\ seen' = traffic
    /\ UNCHANGED <<stores, reader, evicted>>

\* PromoMetrics.set, after which update_prediction_data returns (None)
UpdateSetPromoMetrics ==
    /\ run.pc = "set"
    /\ promo_metrics' = update_prediction_data_row(run.min_daily_by_sr)
    /\ evicted' = DOMAIN promo_metrics \ DOMAIN promo_metrics'
    /\ run' = NoRun
    /\ seen' = {}
    /\ UNCHANGED <<traffic, last_modified, campaigns, weights, bids>>
    /\ UNCHANGED reader

-----------------------------------------------------------------------------
(* The read calls, one action for each store round trip.  A process makes one
   call at a time *)

Idle == call.op = "none"

\* What the call c returns once its round trips are made
Returns(c, daily_inventory, camps, transaction_by_id) ==
    CASE c.op = "get_campaigns_by_date" ->
            get_campaigns_by_date(c.srs, c.start, c.end, camps, transaction_by_id)
      [] c.op = "get_sold_pageviews" ->
            get_sold_pageviews(c.srs, c.start, c.end, camps, transaction_by_id)
      [] c.op = "get_predicted_pageviews" ->
            get_predicted_pageviews(c.srs, c.start, c.end, daily_inventory)
      [] c.op = "get_available_pageviews" ->
            get_available_pageviews(c.srs, c.start, c.end, c.datestr,
                                    daily_inventory, camps, transaction_by_id)
      [] c.op = "get_oversold" ->
            get_oversold(c.srs.items[1], c.start, c.end, c.daily_request,
                         daily_inventory, camps, transaction_by_id)

\* get_campaigns_by_date is called: lines 100-110, the PromotionWeights query
CallGetCampaignsByDate(srs, start, end, ignore) ==
    /\ Idle
    /\ call' = Called("get_campaigns_by_date", srs, start, end, FALSE, ignore, 0)
    /\ frame' = [NoFrame EXCEPT
                   !.pc = "byID",
                   !.campaign_ids =
                       campaign_ids_of(sr_names_of(tup(srs).srs),
                                       Range(get_date_range(start, end)), ignore)]
    /\ UNCHANGED <<ret, stores, aggregator>>

\* get_sold_pageviews is called: it calls get_campaigns_by_date at once
CallGetSoldPageviews(srs, start, end, ignore) ==
    /\ Idle
    /\ call' = Called("get_sold_pageviews", srs, start, end, FALSE, ignore, 0)
    /\ frame' = [NoFrame EXCEPT
                   !.pc = "byID",
                   !.campaign_ids =
                       campaign_ids_of(sr_names_of(tup(srs).srs),
                                       Range(get_date_range(start, end)), ignore)]
    /\ UNCHANGED <<ret, stores, aggregator>>

\* get_predicted_pageviews is called: PromoMetrics.get is its only round trip
CallGetPredictedPageviews(srs, start, end) ==
    /\ Idle
    /\ call' = Called("get_predicted_pageviews", srs, start, end, FALSE, None, 0)
    /\ LET daily_inventory == PromoMetrics_get(cache_names_of(tup(srs).srs))
       IN /\ frame' = [NoFrame EXCEPT !.pc = "done",
                                      !.daily_inventory = daily_inventory]
          /\ ret' = get_predicted_pageviews(srs, start, end, daily_inventory)
    /\ UNCHANGED <<stores, aggregator>>

\* get_available_pageviews is called: it calls get_predicted_pageviews first
CallGetAvailablePageviews(srs, start, end, datestr, ignore) ==
    /\ Idle
    /\ call' = Called("get_available_pageviews", srs, start, end, datestr, ignore, 0)
    /\ frame' = [NoFrame EXCEPT
                   !.pc = "weights",
                   !.daily_inventory = PromoMetrics_get(cache_names_of(tup(srs).srs))]
    /\ UNCHANGED <<ret, stores, aggregator>>

\* get_oversold is called: it calls get_available_pageviews at once
CallGetOversold(sr, start, end, daily_request, ignore) ==
    /\ Idle
    /\ call' = Called("get_oversold", One(sr), start, end, TRUE, ignore, daily_request)
    /\ frame' = [NoFrame EXCEPT
                   !.pc = "weights",
                   !.daily_inventory = PromoMetrics_get(cache_names_of(<<sr>>))]
    /\ UNCHANGED <<ret, stores, aggregator>>

\* get_available_pageviews goes on to get_sold_pageviews: the PromotionWeights
\* query of get_campaigns_by_date
QueryPromotionWeights ==
    /\ frame.pc = "weights"
    /\ frame' = [frame EXCEPT
                   !.pc = "byID",
                   !.campaign_ids =
                       campaign_ids_of(sr_names_of(tup(call.srs).srs),
                                       Range(get_date_range(call.start, call.end)),
                                       call.ignore)]
    /\ UNCHANGED <<call, ret, stores, aggregator>>

\* PromoCampaign._byID.  The Bid query follows when a loaded campaign has a
\* transaction; when none has, no round trip is left and the call returns
LoadCampaigns ==
    /\ frame.pc = "byID"
    /\ IF ~PromoCampaign_byID_finds(frame.campaign_ids)
       THEN /\ frame' = [frame EXCEPT !.pc = "done"]
            /\ ret' = Raise("NotFound")
       ELSE LET camps == PromoCampaign_byID(frame.campaign_ids)
            IN IF transaction_ids_of(camps) # {}
               THEN /\ frame' = [frame EXCEPT !.pc = "bids", !.campaigns = camps]
                    /\ ret' = ret
               ELSE /\ frame' = [frame EXCEPT !.pc = "done", !.campaigns = camps]
                    /\ ret' = Returns(call, frame.daily_inventory, camps, EmptyDict)
    /\ UNCHANGED <<call, stores, aggregator>>

\* The Bid query, and the rest of the call, which reads no store
QueryBids ==
    /\ frame.pc = "bids"
    /\ LET transaction_by_id == Bid_query(transaction_ids_of(frame.campaigns))
       IN /\ frame' = [frame EXCEPT !.pc = "done",
                                    !.transaction_by_id = transaction_by_id]
          /\ ret' = Returns(call, frame.daily_inventory, frame.campaigns,
                            transaction_by_id)
    /\ UNCHANGED <<call, stores, aggregator>>

\* The caller takes the result
ReturnToCaller ==
    /\ frame.pc = "done"
    /\ call' = NoCall
    /\ frame' = NoFrame
    /\ ret' = NoReturn
    /\ UNCHANGED <<stores, aggregator>>

-----------------------------------------------------------------------------
(* Specifications *)

InitStores ==
    /\ last_modified = DateTime(17, 3)
    /\ campaigns = EmptyDict
    /\ weights = {}
    /\ bids = EmptyDict
    /\ call = NoCall
    /\ frame = NoFrame
    /\ ret = NoReturn
    /\ run = NoRun
    /\ seen = {}
    /\ evicted = {}

\* The sales side: campaigns and bids come and go while the five functions
\* are called; the cache holds what an aggregator run left
Init == traffic = SampleTraffic /\ promo_metrics = SampleMetrics /\ InitStores

Next ==
    \/ \E i \in CampaignIds : \E c \in CampaignsOf(i) : NewCampaign(i, c)
    \/ \E i \in CampaignIds : DeleteCampaign(i)
    \/ \E st \in BidStatus : SetBid(1, st)
    \/ \E s \in SrsArgs, w \in Windows, ig \in Ignores :
          CallGetCampaignsByDate(s, w[1], w[2], ig)
    \/ \E s \in SrsArgs, w \in Windows, ig \in Ignores :
          CallGetSoldPageviews(s, w[1], w[2], ig)
    \/ \E s \in SrsArgs, w \in Windows :
          CallGetPredictedPageviews(s, w[1], w[2])
    \/ \E s \in SrsArgs, w \in Windows, ig \in Ignores :
          CallGetAvailablePageviews(s, w[1], w[2], FALSE, ig)
    \/ \E w \in Windows, ig \in Ignores :
          CallGetOversold(FooSR, w[1], w[2], MaxRequest + 2, ig)
    \/ QueryPromotionWeights
    \/ LoadCampaigns
    \/ QueryBids
    \/ ReturnToCaller

Spec == Init /\ [][Next]_vars

\* The availability side: the aggregator runs and a traffic row goes while
\* campaigns and bids come and go and predictions and availability are asked
InitAvailability == traffic = SampleTraffic /\ promo_metrics = EmptyDict /\ InitStores

NextAvailability ==
    \/ UpdateReadLastModified
    \/ UpdateQueryTraffic
    \/ UpdateSetPromoMetrics
    \/ NewCampaign(1, DayCampaign)
    \/ NewCampaign(2, LongCampaign)
    \/ \E i \in CampaignIds : DeleteCampaign(i)
    \/ RemoveTrafficRow(Row(Path(FooName, ListingAction), "day", 16, 5))
    \/ \E st \in {"AUTH", "VOID"} : SetBid(1, st)
    \/ \E s \in {One(FooSR), Many(<<FooSR, DefaultSR>>)} :
          CallGetPredictedPageviews(s, DateTime(1, 12), DateTime(MaxDay, 6))
    \/ \E ds \in BOOLEAN :
          CallGetAvailablePageviews(One(FooSR), Date(0), Date(MaxDay), ds, None)
    \/ \E rq \in Requests :
          CallGetOversold(FooSR, Date(0), Date(MaxDay), rq, None)
    \/ QueryPromotionWeights
    \/ LoadCampaigns
    \/ QueryBids
    \/ ReturnToCaller

SpecAvailability == InitAvailability /\ [][NextAvailability]_vars

\* The cache side: the traffic store starts empty, listing rows come and go,
\* the aggregator runs and predictions are asked
InitTraffic == traffic = {} /\ promo_metrics = EmptyDict /\ InitStores

NextCache ==
    \/ \E r \in ListingRows, lm \in LastModified : AddTrafficRow(r, lm)
    \/ \E r \in ListingRows : RemoveTrafficRow(r)
    \/ UpdateReadLastModified
    \/ UpdateQueryTraffic
    \/ UpdateSetPromoMetrics
    \/ CallGetPredictedPageviews(One(FooSR), Date(0), Date(2))
    \/ ReturnToCaller

SpecCache == InitTraffic /\ [][NextCache]_vars

\* The traffic side: rows of every kind come and go while the aggregator runs
NextTraffic ==
    \/ \E r \in TrafficRows, lm \in LastModified : AddTrafficRow(r, lm)
    \/ \E r \in TrafficRows : RemoveTrafficRow(r)
    \/ UpdateReadLastModified
    \/ UpdateQueryTraffic
    \/ UpdateSetPromoMetrics

SpecTraffic == InitTraffic /\ [][NextTraffic]_vars

-----------------------------------------------------------------------------
(* What the properties are stated over: the call in progress, what its store
   round trips read, and what it returned *)

\* The sites and the dates of the call
CallNames == {sr.name : sr \in Range(call.srs.items)}
CallKeys == {IF sr.is_default THEN EmptyName ELSE sr.name : sr \in Range(call.srs.items)}
QueryDates == {Date(d) : d \in call.start.day .. (call.end.day - 1)}
Finished(op) == call.op = op /\ frame.pc = "done"
Returned(op) == Finished(op) /\ ~ret.raised

\* The date-keyed mapping the call returned for the site named n
Entry(n) == IF ret.by_sr THEN ret.value[n] ELSE ret.value

\* A campaign the call loaded: its site, its active days, and whether it
\* counts as sold by the bids the call found
SiteNameOf(i) ==
    IF frame.campaigns[i].sr_name = EmptyName
    THEN DefaultSRName ELSE frame.campaigns[i].sr_name
ActiveOn(i, d) ==
    /\ frame.campaigns[i].start_date.day <= d.day
    /\ d.day < frame.campaigns[i].end_date.day
HasTransaction(i) == frame.campaigns[i].trans_id # NO_TRANSACTION
HasImpressions(i) == frame.campaigns[i].impressions > 0
MissingBid(i) == frame.campaigns[i].trans_id \notin DOMAIN frame.transaction_by_id
Paid(i) ==
    /\ ~MissingBid(i)
    /\ frame.transaction_by_id[frame.campaigns[i].trans_id] \in {"AUTH", "CHARGE"}
\* The eligible campaigns of the site named n that are active on d, among the
\* campaigns the PromotionWeights query selected and _byID loaded
Counted(n, d) ==
    {i \in DOMAIN frame.campaigns :
        /\ HasTransaction(i) /\ HasImpressions(i) /\ Paid(i)
        /\ SiteNameOf(i) = n /\ ActiveOn(i, d)}
PerDay(i) ==
    frame.campaigns[i].impressions
        \div DaysBetween(frame.campaigns[i].start_date, frame.campaigns[i].end_date)
ValueAt(m, k) == IF k \in DOMAIN m THEN m[k] ELSE 0

\* Two results are the same
SameResult(a, b) ==
    /\ a.raised = b.raised
    /\ a.by_sr = b.by_sr
    /\ a.by_sr = b.by_sr => a.value = b.value

\* What the other functions make of what the call read, for the site named n
PredictedRead(n) ==
    get_predicted_pageviews(Many(call.srs.items), call.start, call.end,
                            frame.daily_inventory).value[n]
SoldRead(n) ==
    get_sold_pageviews(Many(call.srs.items), call.start, call.end,
                       frame.campaigns, frame.transaction_by_id).value[n]
AvailableRead(n) ==
    get_available_pageviews(Many(call.srs.items), call.start, call.end, FALSE,
                            frame.daily_inventory, frame.campaigns,
                            frame.transaction_by_id).value[n]

-----------------------------------------------------------------------------
(* C1 *)

\* C1: get_available_pageviews returns, for every requested site and every
\* date of [start, end), exactly one entry, whose value is
\* max(0, predicted - sold) with a missing sold entry counted as 0: never
\* negative, and predicted - sold whenever sold <= predicted.  Predicted and
\* sold are what get_predicted_pageviews and get_sold_pageviews make of the
\* cache row, the campaigns and the bids the call read.
C1_AvailableIsClampedDifference ==
    Returned("get_available_pageviews") =>
        \A n \in CallNames :
            /\ Cardinality(DOMAIN Entry(n)) = Cardinality(QueryDates)
            /\ \A d \in QueryDates :
                  LET k == datekey(d, call.datestr)
                      predicted == PredictedRead(n)[d]
                      sold == ValueAt(SoldRead(n), d)
                  IN /\ k \in DOMAIN Entry(n)
                     /\ Entry(n)[k] = Max(0, predicted - sold)
                     /\ Entry(n)[k] >= 0
                     /\ (sold <= predicted => Entry(n)[k] = predicted - sold)

\* An availability call that met a day sold beyond the prediction, a day
\* partly sold and a day with no sold entry
C1_Witness ==
    /\ Returned("get_available_pageviews")
    /\ \E n \in CallNames, d \in QueryDates :
          ValueAt(SoldRead(n), d) > PredictedRead(n)[d]
    /\ \E n \in CallNames, d \in QueryDates :
          /\ 0 < ValueAt(SoldRead(n), d)
          /\ ValueAt(SoldRead(n), d) < PredictedRead(n)[d]
    /\ \E n \in CallNames, d \in QueryDates :
          d \notin DOMAIN SoldRead(n) /\ PredictedRead(n)[d] > 0

-----------------------------------------------------------------------------
(* C2 *)

\* C2: a campaign is in a (site, date) bucket of get_campaigns_by_date only
\* if, as the call loaded it, its transaction is not NO_TRANSACTION, its
\* impressions are > 0, the bid the call found for it is authorized or
\* charged, and the date is in the campaign's own range and in the query range.
C2_BucketsHoldOnlyPaidCampaigns ==
    Returned("get_campaigns_by_date") =>
        \A n \in CallNames : \A d \in DOMAIN Entry(n) : \A i \in Entry(n)[d] :
            /\ i \in DOMAIN frame.campaigns
            /\ HasTransaction(i)
            /\ HasImpressions(i)
            /\ Paid(i)
            /\ ActiveOn(i, d)
            /\ d \in QueryDates

\* A call that filled a bucket and had loaded a campaign with a transaction
\* but without impressions, scheduled at a requested site in the query range
C2_Witness ==
    /\ Returned("get_campaigns_by_date")
    /\ \E n \in CallNames : DOMAIN Entry(n) # {}
    /\ \E i \in DOMAIN frame.campaigns, d \in QueryDates :
          /\ SiteNameOf(i) \in CallNames /\ ActiveOn(i, d)
          /\ HasTransaction(i) /\ ~HasImpressions(i)

-----------------------------------------------------------------------------
(* C3 *)

\* C3: get_oversold returns exactly the dates of [start, end), as formatted
\* strings, whose availability is below daily_request, each with the
\* availability get_available_pageviews computes for it.
C3_OversoldIsExactlyTheShortDays ==
    Returned("get_oversold") =>
        LET n == call.srs.items[1].name
            avail == AvailableRead(n)
            short == {d \in QueryDates : avail[d] < call.daily_request}
        IN /\ DOMAIN ret.value = {strftime(d) : d \in short}
           /\ Cardinality(DOMAIN ret.value) = Cardinality(short)
           /\ \A d \in short : ret.value[strftime(d)] = avail[d]

\* An oversold call over a day whose availability equals the request and a
\* day whose availability is below it
C3_Witness ==
    /\ Returned("get_oversold")
    /\ \E d \in QueryDates :
          AvailableRead(call.srs.items[1].name)[d] = call.daily_request
    /\ ret.value # EmptyDict

-----------------------------------------------------------------------------
(* C4 *)

\* C4: for every site and date, get_sold_pageviews is the sum, over the
\* eligible campaigns of the site that are active on the date, of
\* impressions // ndays; a campaign contributes nothing outside the query
\* range, and over its lifetime no more than its impressions.  The campaigns
\* are the ones the call selected and loaded, as it loaded them.
C4_SoldIsSumOfDailyImpressions ==
    Returned("get_sold_pageviews") =>
        \A n \in CallNames :
            /\ DOMAIN Entry(n) \subseteq QueryDates
            /\ \A d \in QueryDates :
                  LET counted == Counted(n, d)
                  IN /\ ValueAt(Entry(n), d) =
                          Sum(counted, [i \in counted |-> PerDay(i)])
                     /\ \A i \in counted :
                          /\ ndays(frame.campaigns[i]) * daily_impressions(frame.campaigns[i])
                                <= frame.campaigns[i].impressions
                          /\ ndays(frame.campaigns[i]) =
                                Cardinality({x \in 0..MaxDay : ActiveOn(i, Date(x))})

\* A sold call over a day on which two campaigns of one site count, one of
\* them only partly inside the query range, with a remainder lost
C4_Witness ==
    /\ Returned("get_sold_pageviews")
    /\ \E n \in CallNames, d \in QueryDates :
          /\ Cardinality(Counted(n, d)) = 2
          /\ \E i \in Counted(n, d) :
                /\ \E x \in 0..MaxDay : ActiveOn(i, Date(x)) /\ Date(x) \notin QueryDates
                /\ ndays(frame.campaigns[i]) * PerDay(i) < frame.campaigns[i].impressions

-----------------------------------------------------------------------------
(* C5 *)

\* The window of the run in progress, from the last_modified it read
WindowDays == (run.last_modified.day - 1 - NDAYS_TO_QUERY) .. (run.last_modified.day - 1)

\* What get_predicted_pageviews answers for one day of the site named n
PredictedFor(n) ==
    get_predicted_pageviews(One([name |-> n, is_default |-> FALSE]),
                            Date(0), Date(1), PromoMetrics_get({n})).value[Date(0)]

\* C5: the prediction cache changes only in the write of update_prediction_data,
\* and that write leaves exactly the mapping the run computed from the traffic
\* it queried: a site cached before and absent from the run's mapping is gone
\* from the cache and is predicted 0; reads and traffic changes leave the
\* cache as it is.
C5_CacheIsTheLatestRun ==
    [][IF run.pc = "set" /\ run'.pc = "none"
       THEN /\ promo_metrics' = run.min_daily_by_sr
            /\ \A n \in DOMAIN promo_metrics' :
                  \E r \in seen : /\ r.interval = "day"
                                  /\ r.date \in WindowDays
                                  /\ r.pageview_count = promo_metrics'[n]
            /\ \A n \in DOMAIN promo_metrics \ DOMAIN run.min_daily_by_sr :
                  /\ n \notin DOMAIN promo_metrics'
                  /\ PredictedFor(n)' = 0
       ELSE promo_metrics' = promo_metrics]_vars

\* After a run that dropped a site which the run before had listed, and after
\* the traffic store was emptied, a prediction for that site was asked and
\* answered 0 while the cache still holds what the run wrote
C5_Witness ==
    /\ evicted # {}
    /\ promo_metrics # EmptyDict
    /\ traffic = {}
    /\ Returned("get_predicted_pageviews")
    /\ call.srs.items[1].name \in evicted
    /\ \A d \in DOMAIN ret.value : ret.value[d] = 0

-----------------------------------------------------------------------------
(* C6 *)

\* The claim's terms: a path has the listing-page suffix when it ends with
\* '-GET_listing', and is then a row of the site named by what precedes it
HasListingSuffix(p) ==
    /\ Len(p) >= Len(GET_LISTING)
    /\ SubSeq(p, Len(p) - Len(GET_LISTING) + 1, Len(p)) = GET_LISTING
SiteBeforeSuffix(p) == SubSeq(p, 1, Len(p) - Len(GET_LISTING))
DailyListingRowsOf(n) ==
    {r \in seen : /\ r.interval = "day"
                  /\ r.date \in WindowDays
                  /\ HasListingSuffix(r.srpath)
                  /\ SiteBeforeSuffix(r.srpath) = n}

\* C6: the mapping _min_daily_pageviews_by_sr returns has a site exactly when
\* the trailing window holds at least one daily row of the site's listing
\* page, with the smallest pageview count among those rows; a row whose path
\* lacks the listing-page suffix is skipped, and the mapping is empty when no
\* row qualifies.
C6_MinimumOverListingRows ==
    run.pc = "set" =>
        /\ \A n \in DOMAIN run.min_daily_by_sr :
              /\ DailyListingRowsOf(n) # {}
              /\ \A r \in DailyListingRowsOf(n) :
                    run.min_daily_by_sr[n] <= r.pageview_count
              /\ \E r \in DailyListingRowsOf(n) :
                    run.min_daily_by_sr[n] = r.pageview_count
        /\ \A r \in seen :
              (r.interval = "day" /\ r.date \in WindowDays
                  /\ HasListingSuffix(r.srpath))
                 => SiteBeforeSuffix(r.srpath) \in DOMAIN run.min_daily_by_sr
        /\ ((\A r \in seen : ~(/\ r.interval = "day"
                               /\ r.date \in WindowDays
                               /\ HasListingSuffix(r.srpath)))
               => run.min_daily_by_sr = EmptyDict)

-----------------------------------------------------------------------------
(* C7 *)

\* C7: a call of get_predicted_pageviews returns, for every requested site,
\* one entry for each of the (end - start).days consecutive days from start,
\* end excluded, all with the same value: the minimum the cache holds for the
\* site when the call is made, or 0 when it holds none, times
\* INVENTORY_FACTOR, truncated to an integer.
C7_PredictionIsConstantOverTheRange ==
    [][(call.op = "none" /\ call'.op = "get_predicted_pageviews") =>
          /\ frame'.pc = "done"
          /\ ~ret'.raised
          /\ \A n \in CallNames' :
                LET cached == IF n \in DOMAIN promo_metrics THEN promo_metrics[n] ELSE 0
                    count == Max(0, to_date(call'.end).day - to_date(call'.start).day)
                IN /\ DOMAIN Entry(n)' =
                         {Date(to_date(call'.start).day + k) : k \in 0..(count - 1)}
                   /\ Cardinality(DOMAIN Entry(n)') = count
                   /\ \A d \in DOMAIN Entry(n)' :
                         Entry(n)'[d] =
                            (cached * INVENTORY_FACTOR_NUM) \div INVENTORY_FACTOR_DEN]_vars

\* A prediction over two days, asked with datetimes, for a cached site and a
\* site the cache does not hold
C7_Witness ==
    /\ Returned("get_predicted_pageviews")
    /\ call.start.is_datetime
    /\ Cardinality(QueryDates) = 2
    /\ ret.by_sr
    /\ \E n \in CallNames : n \in DOMAIN frame.daily_inventory /\ Entry(n)[Date(1)] > 0
    /\ \E n \in CallNames : n \notin DOMAIN frame.daily_inventory /\ Entry(n)[Date(1)] = 0

-----------------------------------------------------------------------------
(* C8 *)

BulkFunctions == {"get_campaigns_by_date", "get_sold_pageviews",
                  "get_predicted_pageviews", "get_available_pageviews"}

\* C8: each of the four bulk functions returns a flat date-keyed mapping when
\* given a single site s and a mapping keyed by site name when given a
\* sequence; the flat result for s is the entry for s.name of the result for
\* the one-element sequence [s] over the same reads.
C8_SingleSiteIsTheEntryOfTheSequence ==
    (call.op \in BulkFunctions /\ frame.pc = "done" /\ ~ret.raised) =>
        IF call.srs.is_iter
        THEN /\ ret.by_sr
             /\ DOMAIN ret.value = CallNames
        ELSE /\ ~ret.by_sr
             /\ LET nested == Returns([call EXCEPT !.srs = Many(call.srs.items)],
                                      frame.daily_inventory, frame.campaigns,
                                      frame.transaction_by_id)
                IN /\ ~nested.raised
                   /\ nested.by_sr
                   /\ DOMAIN nested.value = CallNames
                   /\ ret.value = nested.value[call.srs.items[1].name]

\* A call on a single site that returned a mapping with a sold day in it
C8_Witness ==
    /\ Returned("get_sold_pageviews")
    /\ ~call.srs.is_iter
    /\ ~ret.by_sr
    /\ \E d \in DOMAIN ret.value : ret.value[d] > 0

-----------------------------------------------------------------------------
(* C9 *)

IgnoringFunctions == {"get_campaigns_by_date", "get_sold_pageviews",
                      "get_available_pageviews", "get_oversold"}

\* The bids the call without ignore can find when the ignored campaign is c:
\* the bids the call found, and a bid for c's transaction if the call had no
\* campaign of that transaction
BidsWith(c) ==
    IF \/ c.trans_id = NO_TRANSACTION
       \/ c.trans_id \in transaction_ids_of(frame.campaigns)
    THEN {frame.transaction_by_id}
    ELSE {frame.transaction_by_id} \cup
         {[t \in DOMAIN frame.transaction_by_id \cup {c.trans_id} |->
              IF t = c.trans_id THEN b ELSE frame.transaction_by_id[t]] :
                 b \in BidStatus}

\* What the call returns without ignore when the stores hold c for the ignored
\* campaign and the PromotionWeights query selects it: the other reads are the
\* reads of the call
WithoutIgnore(c, transaction_by_id) ==
    Returns(call, frame.daily_inventory,
            [i \in DOMAIN frame.campaigns \cup {call.ignore._id} |->
                IF i = call.ignore._id THEN c ELSE frame.campaigns[i]],
            transaction_by_id)

\* C9: a campaign passed as ignore is not selected, is in no bucket and adds
\* nothing to the sold totals; whatever the ignored campaign and its bid are,
\* the other campaigns count exactly as in the call without ignore, so
\* availability with ignore is never below availability without it, and
\* get_oversold reports no day it would not report without it.
C9_IgnoredCampaignIsLeftOut ==
    (call.op \in IgnoringFunctions /\ frame.pc = "done"
        /\ ~call.ignore.is_none /\ ~ret.raised) =>
        LET k == call.ignore._id
        IN /\ k \notin frame.campaign_ids
           /\ k \notin DOMAIN frame.campaigns
           /\ call.op = "get_campaigns_by_date" =>
                \A n \in CallNames : \A d \in DOMAIN Entry(n) : k \notin Entry(n)[d]
           /\ call.op = "get_sold_pageviews" =>
                \A n \in CallNames : \A d \in QueryDates :
                    ValueAt(Entry(n), d) =
                        Sum(Counted(n, d) \ {k},
                            [i \in DOMAIN frame.campaigns |-> PerDay(i)])
           /\ \A c \in Campaigns : \A transaction_by_id \in BidsWith(c) :
                LET without == WithoutIgnore(c, transaction_by_id)
                    Other(n) == IF without.by_sr THEN without.value[n]
                                ELSE without.value
                    buckets ==
                        get_campaigns_by_date(
                            Many(call.srs.items), call.start, call.end,
                            [i \in DOMAIN frame.campaigns \cup {k} |->
                                IF i = k THEN c ELSE frame.campaigns[i]],
                            transaction_by_id).value
                    share(n, d) == IF d \in DOMAIN buckets[n] /\ k \in buckets[n][d]
                                   THEN c.impressions \div ndays(c) ELSE 0
                IN ~without.raised =>
                     /\ call.op = "get_campaigns_by_date" =>
                          \A n \in CallNames : \A d \in QueryDates :
                             (IF d \in DOMAIN Entry(n) THEN Entry(n)[d] ELSE {}) =
                             (IF d \in DOMAIN Other(n) THEN Other(n)[d] ELSE {}) \ {k}
                     /\ call.op = "get_sold_pageviews" =>
                          \A n \in CallNames : \A d \in QueryDates :
                             ValueAt(Entry(n), d) = ValueAt(Other(n), d) - share(n, d)
                     /\ call.op = "get_available_pageviews" =>
                          \A n \in CallNames :
                             /\ DOMAIN Entry(n) = DOMAIN Other(n)
                             /\ \A x \in DOMAIN Entry(n) : Entry(n)[x] >= Other(n)[x]
                     /\ call.op = "get_oversold" =>
                          /\ DOMAIN ret.value \subseteq DOMAIN without.value
                          /\ \A x \in DOMAIN ret.value : ret.value[x] >= without.value[x]

\* An availability call that ignored a campaign which the stores hold,
\* scheduled at a requested site in the query range, on a day another campaign
\* is sold on too, and found more available than the call without ignore
C9_Witness ==
    /\ Returned("get_available_pageviews")
    /\ ~call.ignore.is_none
    /\ ~call.datestr
    /\ call.ignore._id \in DOMAIN campaigns
    /\ \E w \in weights : /\ w.promo_idx = call.ignore._id
                          /\ w.sr_name \in CallKeys
                          /\ w.date \in QueryDates
    /\ LET c == campaigns[call.ignore._id]
           without == WithoutIgnore(c, frame.transaction_by_id)
       IN /\ frame.transaction_by_id \in BidsWith(c)
          /\ ~without.raised
          /\ \E n \in CallNames, d \in QueryDates :
                /\ Counted(n, d) # {}
                /\ Entry(n)[d] > (IF without.by_sr THEN without.value[n]
                                  ELSE without.value)[d]

-----------------------------------------------------------------------------
(* C10 *)

\* The campaigns the call loaded that the sentinel or the impressions check
\* skips, and the ones that pass both and have no bid among the bids found
Skipped == {i \in DOMAIN frame.campaigns : ~HasTransaction(i) \/ ~HasImpressions(i)}
Unpaid ==
    {i \in DOMAIN frame.campaigns :
        HasTransaction(i) /\ HasImpressions(i) /\ MissingBid(i)}

\* C10: the bid of a campaign is looked up only after the sentinel and the
\* impressions checks.  Once the campaigns are loaded, get_campaigns_by_date,
\* and with it get_sold_pageviews, get_available_pageviews and get_oversold,
\* raises KeyError when a loaded campaign with a real transaction id and
\* impressions > 0 has no bid; a campaign without a transaction or without
\* impressions changes nothing in what the call does, bid or no bid; and when
\* the call raises with no such campaign loaded, a counted campaign is of a
\* site that was not asked for.
C10_MissingBidRaisesKeyError ==
    (call.op \in IgnoringFunctions /\ frame.pc = "done"
        /\ ~(ret.raised /\ ret.value = "NotFound")) =>
        /\ Unpaid # {} => (ret.raised /\ ret.value = "KeyError")
        /\ SameResult(ret,
              Returns(call, frame.daily_inventory,
                      [i \in DOMAIN frame.campaigns \ Skipped |-> frame.campaigns[i]],
                      frame.transaction_by_id))
        /\ (ret.raised /\ Unpaid = {}) =>
              \E i \in DOMAIN frame.campaigns \ Skipped :
                  /\ Paid(i)
                  /\ SiteNameOf(i) \notin CallNames
                  /\ \E d \in QueryDates : ActiveOn(i, d)

\* A sold call that raised for a campaign without a bid, having loaded another
\* campaign without a bid that has no impressions
C10_Witness ==
    /\ Finished("get_sold_pageviews")
    /\ ret.raised
    /\ \E i \in Unpaid : TRUE
    /\ \E i \in Skipped : HasTransaction(i) /\ MissingBid(i)

=============================================================================
